---- MODULE Spec2Model ----
(***************************************************************************)
(* Model of the volatility alert bot (src/index.js): the scan scheduler    *)
(* (monitorMarket), the per-symbol cooldown map, the warmup flag, the      *)
(* signal analysis and the alert classifier.                               *)
(*                                                                         *)
(* Time is in milliseconds, as Date.now().  The clock advances only while  *)
(* the program is suspended at an await; synchronous code between two      *)
(* awaits is split into several steps that take no time.                   *)
(* Percentages are whole numbers: every feed value below is chosen so that *)
(* the quotients the code computes in floating point are exact integers.   *)
(***************************************************************************)
EXTENDS Integers, Sequences, FiniteSets, Bags

VARIABLES
  now,                  \* Date.now()
  alertCooldowns,       \* the Map symbol -> time of the last alert
  isWarmedUp,           \* the warmup flag
  pc,                   \* position of the scan control flow
  running,              \* executions of monitorMarket in progress
  timers,               \* pending setTimeout(monitorMarket) callbacks
  cycle,                \* number of scan cycles started
  marketData,           \* monitorMarket: symbols of the ticker snapshot
  i,                    \* monitorMarket: offset of the current batch
  batch,                \* monitorMarket: the current batch
  k,                    \* monitorMarket: position in the batch (from 1)
  alertsSent,           \* monitorMarket: local counter
  skippedDuringWarmup,  \* monitorMarket: local counter
  klines5m,             \* analyzeSymbol: result of the first fetch
  klines15m,            \* analyzeSymbol: result of the second fetch
  analysis,             \* monitorMarket/sendAlert: the analysis record
  alertType,            \* monitorMarket/sendAlert: the category
  chartUrl,             \* sendAlert: result of generateChartUrl
  alertDirection,       \* sendAlert: the local direction
  sendOutcome,          \* how the sendAlert call just made ended
  sent,                 \* the message the transport accepted in that call
  matches,              \* classifications of this cycle that produced a category
  delivered,            \* sends of this cycle the transport accepted
  report,               \* the last line the scan wrote to the console
  completed,            \* a scan pass has run to completion
  roleEnv,              \* process.env: the two optional mention role ids
  handlers,             \* the InteractionCreate callbacks in flight (a bag)
  memberRoles,          \* roles of the member who uses the opt-in button
  lastReply             \* the answer given since the latest interaction arrived

shared == <<alertCooldowns, isWarmedUp>>
sched == <<running, timers, cycle>>
loopvars == <<marketData, i, batch, k>>
counters == <<alertsSent, skippedDuringWarmup>>
symvars == <<klines5m, klines15m, analysis, alertType, chartUrl, alertDirection,
            sendOutcome, sent>>
obs == <<matches, delivered, report, completed>>
ivars == <<roleEnv, handlers, memberRoles, lastReply>>
vars == <<now, alertCooldowns, isWarmedUp, pc, running, timers, cycle,
          marketData, i, batch, k, alertsSent, skippedDuringWarmup,
          klines5m, klines15m, analysis, alertType, chartUrl, alertDirection,
          sendOutcome, sent,
          matches, delivered, report, completed,
          roleEnv, handlers, memberRoles, lastReply>>

----------------------------------------------------------------------------
(* Bounds of the model *)

MaxCycles == 3
MaxSymbols == 2
StartTime == 1000

(* how many presses of the opt-in button are handled at the same time *)
MaxHandlers == 2

(* Program constants *)

BIG_MOVE == 5
FAST_MOVE == 3
MinVolume15m == 50000
MinVolumeSpike == 50
MinCandles5m == 10
COOLDOWN_MS == 60 * 60 * 1000
batchSize == 20
AlertPaceMs == 2000
BatchPauseMs == 100
CyclePauseMs == 60 * 1000

(* Time a network await takes, and how late the cycle timer may fire.     *)
(* Only the timers let the clock advance: the claims depend on the time   *)
(* between a recorded alert and a later gate check, which the lateness of *)
(* the cycle timer spans.  LateBase is the lateness that makes exactly    *)
(* COOLDOWN_MS elapse between a recorded alert and the next cycle's gate  *)
(* check of the same symbol.                                              *)
NetDelays == {0}
LateBase == COOLDOWN_MS - (AlertPaceMs + BatchPauseMs + CyclePauseMs)
TimerLate == {0, LateBase}

AllSymbols == <<"BTCUSDT", "ETHUSDT", "SOLUSDT", "XRPUSDT">>
Symbols == {AllSymbols[n] : n \in 1..MaxSymbols}

Min(a, b) == IF a < b THEN a ELSE b
Abs(x) == IF x < 0 THEN -x ELSE x

RECURSIVE SumTo(_, _)
SumTo(s, n) == IF n = 0 THEN 0 ELSE s[n] + SumTo(s, n - 1)
SumSeq(s) == SumTo(s, Len(s))

(* JavaScript's zero-based indexing and Array.prototype.slice *)
At(s, n) == s[n + 1]
Slice(s, from, to) == SubSeq(s, from + 1, Min(to, Len(s)))

----------------------------------------------------------------------------
(* Inputs: what the market data source can answer *)

Candle(o, c, v) == [open |-> o, close |-> c, volume |-> v]

(* A 5-minute series, most recent first: the latest candle, two more      *)
(* candles of the last 15 minutes, then the baseline candles.             *)
Series5m(len, o0, c0, o2, v0, v12, vb) ==
  [n \in 1..len |->
     IF n = 1 THEN Candle(o0, c0, v0)
     ELSE IF n = 2 THEN Candle(100, 100, v12)
     ELSE IF n = 3 THEN Candle(o2, 100, v12)
     ELSE Candle(100, 100, vb)]

NullKlines == [isNull |-> TRUE, list |-> <<>>]
Klines(s) == [isNull |-> FALSE, list |-> s]

Kline5mFeeds ==
  { NullKlines,
    Klines(Series5m(9, 100, 106, 100, 20000, 20000, 20000)),   \* short history
    Klines(Series5m(10, 100, 100, 100, 20000, 20000, 20000)),  \* quiet
    Klines(Series5m(10, 100, 106, 100, 20000, 20000, 20000)),  \* +6% in 15m
    Klines(Series5m(10, 100, 95, 100, 20000, 20000, 20000)),   \* -5% in 15m
    Klines(Series5m(10, 100, 103, 100, 30000, 20000, 10000)),  \* +3% in 5m, spike
    Klines(Series5m(10, 100, 110, 100, 1000, 1000, 1000)) }    \* illiquid

Series15m(c) == [n \in 1..Len(c) |-> Candle(c[n], c[n], 1000)]

Kline15mFeeds ==
  { NullKlines,
    Klines(Series15m(<<100, 150, 150, 225, 225>>)) }

(* The ticker list of a snapshot response: every symbol is listed or not, *)
(* with or without a lastPrice.                                           *)
RECURSIVE ListsUpTo(_)
ListsUpTo(n) ==
  IF n = 0 THEN {<<>>}
  ELSE LET prev == ListsUpTo(n - 1)
       IN prev \cup {Append(l, [symbol |-> AllSymbols[n], lastPrice |-> p]) :
                       l \in prev, p \in {"", "100"}}

TickerResponses ==
  {[hasList |-> FALSE, list |-> <<>>]} \cup
  {[hasList |-> TRUE, list |-> l] : l \in ListsUpTo(MaxSymbols)}

----------------------------------------------------------------------------
(* Pure functions *)

(* fetchMarketData: the tickers kept from a response; only the symbol of  *)
(* a ticker is used by the scan.                                          *)
RECURSIVE KeepTickers(_)
KeepTickers(l) ==
  IF l = <<>> THEN <<>>
  ELSE IF Head(l).symbol = "" \/ Head(l).lastPrice = ""
       THEN KeepTickers(Tail(l))
       ELSE <<Head(l).symbol>> \o KeepTickers(Tail(l))

fetchMarketData(response) ==
  IF response.hasList THEN KeepTickers(response.list) ELSE <<>>

(* Math.sqrt on a perfect square; the floor of the root otherwise *)
RECURSIVE SqrtFrom(_, _)
SqrtFrom(n, t) == IF (t + 1) * (t + 1) > n THEN t ELSE SqrtFrom(n, t + 1)
ISqrt(n) == SqrtFrom(n, 0)

(* calculateVolatility: population standard deviation of the returns, in  *)
(* percent (the returns are taken in percent before the square root).     *)
calculateVolatility(klines) ==
  IF Len(klines) < 2 THEN 0
  ELSE LET n == Len(klines) - 1
           returns == [r \in 1..n |->
                         ((At(klines, r).close - At(klines, r - 1).close) * 100)
                            \div At(klines, r - 1).close]
           mean == SumSeq(returns) \div n
           variance == SumSeq([r \in 1..n |-> (returns[r] - mean) * (returns[r] - mean)]) \div n
       IN ISqrt(variance)

calculateTicks(klines) ==
  SumSeq([n \in 1..Len(klines) |-> klines[n].volume]) \div Len(klines)

Volumes(klines) == [n \in 1..Len(klines) |-> klines[n].volume]

NoAnalysis == [absent |-> TRUE]

(* analyzeSymbol without the test of the 15-minute fetch *)
analyzeSymbolIgnores15m(symbol, k5, k15) ==
  IF k5.isNull \/ Len(k5.list) < MinCandles5m THEN NoAnalysis
  ELSE LET l5 == k5.list
           currentPrice == At(l5, 0).close
           oldPrice5m == At(l5, 0).open
           oldPrice15m == At(l5, 2).open
           volume5m == At(l5, 0).volume
           avgVolume == SumSeq(Volumes(Slice(l5, 3, 10))) \div 7
       IN [absent |-> FALSE,
           symbol |-> symbol,
           price |-> currentPrice,
           ticks5m |-> calculateTicks(Slice(l5, 0, 1)),
           volatility15m |-> calculateVolatility(k15.list),
           priceChange5m |-> ((currentPrice - oldPrice5m) * 100) \div oldPrice5m,
           priceChange15m |-> ((currentPrice - oldPrice15m) * 100) \div oldPrice15m,
           volume5m |-> volume5m,
           volume15m |-> SumSeq(Volumes(Slice(l5, 0, 3))),
           volumeSpike |-> IF avgVolume > 0
                           THEN ((volume5m - avgVolume) * 100) \div avgVolume
                           ELSE 0]

(* analyzeSymbol with the 15-minute change taken from the candle at index 3 *)
analyzeSymbolThreeBack(symbol, k5, k15) ==
  IF k5.isNull \/ k15.isNull \/ Len(k5.list) < MinCandles5m THEN NoAnalysis
  ELSE LET l5 == k5.list
           currentPrice == At(l5, 0).close
           oldPrice5m == At(l5, 0).open
           oldPrice15m == At(l5, 3).open
           volume5m == At(l5, 0).volume
           avgVolume == SumSeq(Volumes(Slice(l5, 3, 10))) \div 7
       IN [absent |-> FALSE,
           symbol |-> symbol,
           price |-> currentPrice,
           ticks5m |-> calculateTicks(Slice(l5, 0, 1)),
           volatility15m |-> calculateVolatility(k15.list),
           priceChange5m |-> ((currentPrice - oldPrice5m) * 100) \div oldPrice5m,
           priceChange15m |-> ((currentPrice - oldPrice15m) * 100) \div oldPrice15m,
           volume5m |-> volume5m,
           volume15m |-> SumSeq(Volumes(Slice(l5, 0, 3))),
           volumeSpike |-> IF avgVolume > 0
                           THEN ((volume5m - avgVolume) * 100) \div avgVolume
                           ELSE 0]

analyzeSymbol(symbol, k5, k15) ==
  IF k5.isNull \/ k15.isNull \/ Len(k5.list) < MinCandles5m THEN NoAnalysis
  ELSE LET l5 == k5.list
           currentPrice == At(l5, 0).close
           oldPrice5m == At(l5, 0).open
           oldPrice15m == At(l5, 2).open
           volume5m == At(l5, 0).volume
           avgVolume == SumSeq(Volumes(Slice(l5, 3, 10))) \div 7
       IN [absent |-> FALSE,
           symbol |-> symbol,
           price |-> currentPrice,
           ticks5m |-> calculateTicks(Slice(l5, 0, 1)),
           volatility15m |-> calculateVolatility(k15.list),
           priceChange5m |-> ((currentPrice - oldPrice5m) * 100) \div oldPrice5m,
           priceChange15m |-> ((currentPrice - oldPrice15m) * 100) \div oldPrice15m,
           volume5m |-> volume5m,
           volume15m |-> SumSeq(Volumes(Slice(l5, 0, 3))),
           volumeSpike |-> IF avgVolume > 0
                           THEN ((volume5m - avgVolume) * 100) \div avgVolume
                           ELSE 0]

(* analyzeSymbol on every answer of the feed, evaluated once *)
Analyses ==
  [symbol \in Symbols, k5 \in Kline5mFeeds, k15 \in Kline15mFeeds |->
     analyzeSymbol(symbol, k5, k15)]


(* shouldAlert with strict thresholds *)
shouldAlertStrict(a) ==
  IF a.volume15m < MinVolume15m THEN "none"
  ELSE IF Abs(a.priceChange15m) > BIG_MOVE THEN "big_move"
  ELSE IF Abs(a.priceChange5m) > FAST_MOVE /\ a.volumeSpike > MinVolumeSpike THEN "fast_move"
  ELSE "none"

shouldAlert(a) ==
  IF a.volume15m < MinVolume15m THEN "none"
  ELSE IF Abs(a.priceChange15m) >= BIG_MOVE THEN "big_move"
  ELSE IF Abs(a.priceChange5m) >= FAST_MOVE /\ a.volumeSpike > MinVolumeSpike THEN "fast_move"
  ELSE "none"


(* canSendAlert with the elapsed time compared in seconds *)
canSendAlertSeconds(symbol) ==
  IF symbol \notin DOMAIN alertCooldowns THEN TRUE
  ELSE IF alertCooldowns[symbol] = 0 THEN TRUE
  ELSE now - alertCooldowns[symbol] >= COOLDOWN_MS \div 1000

(* canSendAlert with a strict comparison *)
canSendAlertStrict(symbol) ==
  IF symbol \notin DOMAIN alertCooldowns THEN TRUE
  ELSE IF alertCooldowns[symbol] = 0 THEN TRUE
  ELSE now - alertCooldowns[symbol] > COOLDOWN_MS

(* canSendAlert: a missing entry and an entry of 0 are both falsy *)
canSendAlert(symbol) ==
  IF symbol \notin DOMAIN alertCooldowns THEN TRUE
  ELSE IF alertCooldowns[symbol] = 0 THEN TRUE
  ELSE now - alertCooldowns[symbol] >= COOLDOWN_MS

----------------------------------------------------------------------------
(* State machine *)

NoReport == [kind |-> "none", count |-> 0]

(* Configuration: the two destinations and their mention roles *)
BULLISH_ALERT_CHANNEL_ID == "bullish-channel"
BEARISH_ALERT_CHANNEL_ID == "bearish-channel"
BULLISH_ALERT_ROLE_ID == roleEnv.bullish
BEARISH_ALERT_ROLE_ID == roleEnv.bearish

(* a role id may be left unset *)
RoleEnvs == [bullish : {"", "bullish-role"}, bearish : {"", "bearish-role"}]

NoMessage == [channel |-> "none", content |-> "none", customId |-> "none", image |-> "none"]

Init ==
  /\ now = StartTime
  /\ alertCooldowns = [s \in {} |-> 0]
  /\ isWarmedUp = FALSE
  /\ pc = "boot"
  /\ running = 0
  /\ timers = 0
  /\ cycle = 0
  /\ marketData = <<>>
  /\ i = 0
  /\ batch = <<>>
  /\ k = 0
  /\ alertsSent = 0
  /\ skippedDuringWarmup = 0
  /\ klines5m = NullKlines
  /\ klines15m = NullKlines
  /\ analysis = NoAnalysis
  /\ alertType = "none"
  /\ chartUrl = "null"
  /\ alertDirection = "none"
  /\ sendOutcome = "none"
  /\ sent = NoMessage
  /\ matches = 0
  /\ delivered = 0
  /\ report = NoReport
  /\ completed = FALSE
  /\ roleEnv = [bullish |-> "bullish-role", bearish |-> "bearish-role"]
  /\ handlers = EmptyBag
  /\ memberRoles = {}
  /\ lastReply = "none"

(* The per-symbol locals are dead once the symbol is dealt with, and all   *)
(* locals of monitorMarket once the cycle ends.                           *)
ResetAlertLocals ==
  /\ klines5m' = NullKlines
  /\ klines15m' = NullKlines
  /\ analysis' = NoAnalysis
  /\ alertType' = "none"
  /\ chartUrl' = "null"
  /\ alertDirection' = "none"

ResetSymbolLocals ==
  /\ ResetAlertLocals
  /\ sendOutcome' = "none"
  /\ sent' = NoMessage

ResetLocals ==
  /\ marketData' = <<>>
  /\ i' = 0
  /\ batch' = <<>>
  /\ k' = 0
  /\ alertsSent' = 0
  /\ skippedDuringWarmup' = 0
  /\ ResetSymbolLocals

(* monitorMarket up to its first await *)
BeginScan ==
  /\ running' = running + 1
  /\ cycle' = cycle + 1
  /\ pc' = "fetchMarketData"
  /\ matches' = 0
  /\ delivered' = 0
  /\ report' = [kind |-> "scanning", count |-> 0]

(* the end of monitorMarket with the timer set twice *)
scheduleNextTwice ==
  /\ pc' = "timer"
  /\ running' = running - 1
  /\ timers' = timers + 2
  /\ ResetLocals

(* the end of monitorMarket: setTimeout(monitorMarket, 60 s) *)
scheduleNext ==
  /\ pc' = "timer"
  /\ running' = running - 1
  /\ timers' = timers + 1
  /\ ResetLocals

(* clientReady: the bullish channel resolves, the bearish one is fetched *)
ClientReadyBullish ==
  /\ pc = "boot"
  /\ \E d \in NetDelays : now' = now + d
  /\ pc' = "bootBearish"
  /\ UNCHANGED <<ivars, shared, sched, loopvars, counters, symvars, obs>>

(* clientReady: the channel being fetched cannot be resolved,             *)
(* process.exit(1)                                                        *)
ClientReadyFail ==
  /\ pc \in {"boot", "bootBearish"}
  /\ \E d \in NetDelays : now' = now + d
  /\ pc' = "exited"
  /\ UNCHANGED <<ivars, shared, sched, loopvars, counters, symvars, obs>>

(* clientReady: the bearish channel resolves too, monitorMarket() is called *)
ClientReadyOk ==
  /\ pc = "bootBearish"
  /\ \E d \in NetDelays : now' = now + d
  /\ BeginScan
  /\ UNCHANGED <<ivars, shared, timers, loopvars, counters, symvars, completed>>

(* the timer set by the previous cycle fires *)
TimerFire ==
  /\ pc = "timer"
  /\ timers > 0
  /\ cycle < MaxCycles
  /\ \E d \in TimerLate : now' = now + CyclePauseMs + d
  /\ timers' = timers - 1
  /\ BeginScan
  /\ UNCHANGED <<ivars, shared, loopvars, counters, symvars, completed>>

FetchMarketDataOk ==
  /\ pc = "fetchMarketData"
  /\ \E d \in NetDelays : now' = now + d
  /\ \E response \in TickerResponses : marketData' = fetchMarketData(response)
  /\ alertsSent' = 0
  /\ skippedDuringWarmup' = 0
  /\ i' = 0
  /\ pc' = "batch"
  /\ UNCHANGED <<ivars, shared, sched, batch, k, symvars, obs>>

(* the snapshot fetch throws and nothing catches it: no timer is set *)
FetchMarketDataFailUncaught ==
  /\ pc = "fetchMarketData"
  /\ \E d \in NetDelays : now' = now + d
  /\ report' = [kind |-> "failed", count |-> 0]
  /\ pc' = "crashed"
  /\ running' = running - 1
  /\ ResetLocals
  /\ UNCHANGED <<ivars, shared, timers, cycle, matches, delivered, completed>>

(* the snapshot fetch throws and the catch ends the warmup all the same *)
FetchMarketDataFailWarms ==
  /\ pc = "fetchMarketData"
  /\ \E d \in NetDelays : now' = now + d
  /\ report' = [kind |-> "failed", count |-> 0]
  /\ isWarmedUp' = TRUE
  /\ scheduleNext
  /\ UNCHANGED <<ivars, alertCooldowns, cycle, matches, delivered, completed>>

(* the snapshot fetch throws: caught at the top of the cycle *)
FetchMarketDataFail ==
  /\ pc = "fetchMarketData"
  /\ \E d \in NetDelays : now' = now + d
  /\ report' = [kind |-> "failed", count |-> 0]
  /\ scheduleNext
  /\ UNCHANGED <<ivars, shared, cycle, matches, delivered, completed>>

BatchBegin ==
  /\ pc = "batch"
  /\ i < Len(marketData)
  /\ batch' = Slice(marketData, i, i + batchSize)
  /\ k' = 1
  /\ pc' = "ticker"
  /\ UNCHANGED <<ivars, now, shared, sched, marketData, i, counters, symvars, obs>>

(* the end of the pass, leaving warmup only when something was suppressed *)
ScanCompleteIfFound ==
  /\ pc = "batch"
  /\ i >= Len(marketData)
  /\ IF ~isWarmedUp
     THEN /\ report' = [kind |-> "warmup", count |-> skippedDuringWarmup]
          /\ isWarmedUp' = (skippedDuringWarmup > 0)
     ELSE /\ report' = [kind |-> "done", count |-> alertsSent]
          /\ isWarmedUp' = isWarmedUp
  /\ completed' = TRUE
  /\ scheduleNext
  /\ UNCHANGED <<ivars, now, alertCooldowns, cycle, matches, delivered>>

(* the loop over the batches is over: the summary, then the next timer *)
ScanComplete ==
  /\ pc = "batch"
  /\ i >= Len(marketData)
  /\ IF ~isWarmedUp
     THEN /\ report' = [kind |-> "warmup", count |-> skippedDuringWarmup]
          /\ isWarmedUp' = TRUE
     ELSE /\ report' = [kind |-> "done", count |-> alertsSent]
          /\ isWarmedUp' = isWarmedUp
  /\ completed' = TRUE
  /\ scheduleNext
  /\ UNCHANGED <<ivars, now, alertCooldowns, cycle, matches, delivered>>

(* the cooldown gate: continue with the next ticker *)
TickerGated ==
  /\ pc = "ticker"
  /\ k <= Len(batch)
  /\ ~canSendAlert(batch[k])
  /\ k' = k + 1
  /\ UNCHANGED <<ivars, now, shared, sched, pc, marketData, i, batch, counters, symvars, obs>>

(* the analysis started without the cooldown gate *)
TickerAnalyzeUngated ==
  /\ pc = "ticker"
  /\ k <= Len(batch)
  /\ pc' = "kline5m"
  /\ UNCHANGED <<ivars, now, shared, sched, loopvars, counters, symvars, obs>>

(* the ticker passes the gate: analyzeSymbol starts its first fetch *)
TickerAnalyze ==
  /\ pc = "ticker"
  /\ k <= Len(batch)
  /\ canSendAlert(batch[k])
  /\ pc' = "kline5m"
  /\ UNCHANGED <<ivars, now, shared, sched, loopvars, counters, symvars, obs>>

BatchEnd ==
  /\ pc = "ticker"
  /\ k > Len(batch)
  /\ pc' = "batchPause"
  /\ UNCHANGED <<ivars, now, shared, sched, loopvars, counters, symvars, obs>>

BatchPause ==
  /\ pc = "batchPause"
  /\ now' = now + BatchPauseMs
  /\ i' = i + batchSize
  /\ pc' = "batch"
  /\ UNCHANGED <<ivars, shared, sched, marketData, batch, k, counters, symvars, obs>>

(* analyzeSymbol: the 5-minute fetch settles; the 15-minute fetch follows *)
GetKline5m ==
  /\ pc = "kline5m"
  /\ \E d \in NetDelays : now' = now + d
  /\ \E r \in Kline5mFeeds : klines5m' = r
  /\ pc' = "kline15m"
  /\ UNCHANGED <<ivars, shared, sched, loopvars, counters, klines15m, analysis, alertType,
                 chartUrl, alertDirection, sendOutcome, sent, obs>>

(* the 15-minute fetch settles: the analysis and what the loop does with it *)
Continue ==
  /\ k' = k + 1
  /\ pc' = "ticker"
  /\ ResetSymbolLocals

SkipAbsent ==
  /\ pc = "kline15m"
  /\ \E d \in NetDelays : now' = now + d
  /\ \E r \in Kline15mFeeds :
       \E a \in {Analyses[batch[k], klines5m, r]} : a.absent
  /\ Continue
  /\ UNCHANGED <<ivars, shared, sched, marketData, i, batch, counters, obs>>

(* no category, with the warmup counter incremented before the test *)
SkipNoAlertCounted ==
  /\ pc = "kline15m"
  /\ \E d \in NetDelays : now' = now + d
  /\ \E r \in Kline15mFeeds :
       \E a \in {Analyses[batch[k], klines5m, r]} :
          ~a.absent /\ shouldAlert(a) = "none"
  /\ skippedDuringWarmup' = IF isWarmedUp THEN skippedDuringWarmup
                            ELSE skippedDuringWarmup + 1
  /\ Continue
  /\ UNCHANGED <<ivars, shared, sched, marketData, i, batch, alertsSent, obs>>


SkipNoAlert ==
  /\ pc = "kline15m"
  /\ \E d \in NetDelays : now' = now + d
  /\ \E r \in Kline15mFeeds :
       \E a \in {Analyses[batch[k], klines5m, r]} :
          ~a.absent /\ shouldAlert(a) = "none"
  /\ Continue
  /\ UNCHANGED <<ivars, shared, sched, marketData, i, batch, counters, obs>>

SuppressDuringWarmup ==
  /\ pc = "kline15m"
  /\ ~isWarmedUp
  /\ \E d \in NetDelays : now' = now + d
  /\ \E r \in Kline15mFeeds :
       \E a \in {Analyses[batch[k], klines5m, r]} :
          ~a.absent /\ shouldAlert(a) # "none"
  /\ skippedDuringWarmup' = skippedDuringWarmup + 1
  /\ matches' = matches + 1
  /\ Continue
  /\ UNCHANGED <<ivars, shared, sched, marketData, i, batch, alertsSent,
                 delivered, report, completed>>

(* sendAlert: the destination follows the sign of the category's change *)
priceChange(a, t) == IF t = "fast_move" THEN a.priceChange5m ELSE a.priceChange15m

(* the direction taken from the 15-minute change whatever the category *)
directionFrom15m(a, t) == IF a.priceChange15m >= 0 THEN "bullish" ELSE "bearish"

direction(a, t) == IF priceChange(a, t) >= 0 THEN "bullish" ELSE "bearish"

channelId(d) == IF d = "bullish" THEN BULLISH_ALERT_CHANNEL_ID ELSE BEARISH_ALERT_CHANNEL_ID
roleId(d) == IF d = "bullish" THEN BULLISH_ALERT_ROLE_ID ELSE BEARISH_ALERT_ROLE_ID
customId(d) == IF d = "bullish" THEN "toggle_role_bullish" ELSE "toggle_role_bearish"

(* the payload of channel.send: the embed's image is set when there is a  *)
(* chart, the mention and the opt-in button follow the direction          *)
messagePayload(d, url) ==
  [channel |-> channelId(d),
   content |-> IF roleId(d) # "" THEN roleId(d) ELSE "none",
   customId |-> customId(d),
   image |-> IF url # "null" THEN url ELSE "none"]

(* sendAlert called whatever the warmup flag *)
CallSendAlertAnyway ==
  /\ pc = "kline15m"
  /\ \E d \in NetDelays : now' = now + d
  /\ \E r \in Kline15mFeeds :
       \E a \in {Analyses[batch[k], klines5m, r]} :
          /\ ~a.absent
          /\ shouldAlert(a) # "none"
          /\ analysis' = a
          /\ alertType' = shouldAlert(a)
          /\ alertDirection' = direction(a, shouldAlert(a))
  /\ matches' = matches + 1
  /\ pc' = "channelFetch"
  /\ klines5m' = NullKlines
  /\ klines15m' = NullKlines
  /\ UNCHANGED <<ivars, shared, sched, loopvars, counters, chartUrl, sendOutcome, sent,
                 delivered, report, completed>>

(* sendAlert called for a BigMove only: a FastMove is logged and dropped *)
CallSendAlertBigMoveOnly ==
  /\ pc = "kline15m"
  /\ isWarmedUp
  /\ \E d \in NetDelays : now' = now + d
  /\ \E r \in Kline15mFeeds :
       \E a \in {Analyses[batch[k], klines5m, r]} :
          /\ ~a.absent
          /\ shouldAlert(a) # "none"
          /\ IF shouldAlert(a) = "big_move"
             THEN /\ analysis' = a
                  /\ alertType' = shouldAlert(a)
                  /\ alertDirection' = direction(a, shouldAlert(a))
                  /\ pc' = "channelFetch"
                  /\ klines5m' = NullKlines
                  /\ klines15m' = NullKlines
                  /\ UNCHANGED <<loopvars, chartUrl, sendOutcome, sent>>
             ELSE /\ Continue
                  /\ UNCHANGED <<marketData, i, batch>>
  /\ matches' = matches + 1
  /\ UNCHANGED <<ivars, shared, sched, counters, delivered, report, completed>>

(* sendAlert is called and runs up to its first await *)
CallSendAlert ==
  /\ pc = "kline15m"
  /\ isWarmedUp
  /\ \E d \in NetDelays : now' = now + d
  /\ \E r \in Kline15mFeeds :
       \E a \in {Analyses[batch[k], klines5m, r]} :
          /\ ~a.absent
          /\ shouldAlert(a) # "none"
          /\ analysis' = a
          /\ alertType' = shouldAlert(a)
          /\ alertDirection' = direction(a, shouldAlert(a))
  /\ matches' = matches + 1
  /\ pc' = "channelFetch"
  /\ klines5m' = NullKlines
  /\ klines15m' = NullKlines
  /\ UNCHANGED <<ivars, shared, sched, loopvars, counters, chartUrl, sendOutcome, sent,
                 delivered, report, completed>>

ChannelFetchOk ==
  /\ pc = "channelFetch"
  /\ \E d \in NetDelays : now' = now + d
  /\ pc' = "chart"
  /\ UNCHANGED <<ivars, shared, sched, loopvars, counters, symvars, obs>>

(* no channel: sendAlert returns, the loop counts the alert and paces *)
ChannelFetchNull ==
  /\ pc = "channelFetch"
  /\ \E d \in NetDelays : now' = now + d
  /\ alertsSent' = alertsSent + 1
  /\ sendOutcome' = "no_channel"
  /\ pc' = "pace"
  /\ ResetAlertLocals
  /\ UNCHANGED <<ivars, shared, sched, loopvars, skippedDuringWarmup, sent, obs>>

(* the aborted cycle puts the scheduler back in warmup *)
ChannelFetchThrowRewarms ==
  /\ pc = "channelFetch"
  /\ \E d \in NetDelays : now' = now + d
  /\ report' = [kind |-> "failed", count |-> 0]
  /\ isWarmedUp' = FALSE
  /\ scheduleNext
  /\ UNCHANGED <<ivars, alertCooldowns, cycle, matches, delivered, completed>>

(* the channel fetch throws outside sendAlert's try: the cycle is aborted *)
ChannelFetchThrow ==
  /\ pc = "channelFetch"
  /\ \E d \in NetDelays : now' = now + d
  /\ report' = [kind |-> "failed", count |-> 0]
  /\ scheduleNext
  /\ UNCHANGED <<ivars, shared, cycle, matches, delivered, completed>>

(* generateChartUrl: the 1-minute klines arrive, the chart is requested *)
ChartKlines ==
  /\ pc = "chart"
  /\ \E d \in NetDelays : now' = now + d
  /\ pc' = "chartPost"
  /\ UNCHANGED <<ivars, shared, sched, loopvars, counters, symvars, obs>>

(* what generateChartUrl can return from where it is suspended: only the *)
(* chart service gives a URL                                             *)
ChartResults == IF pc = "chart" THEN {"null"} ELSE {"null", "url"}

(* a failure of the chart service leaves sendAlert as an exception *)
GenerateChartUrlThrows ==
  /\ pc \in {"chart", "chartPost"}
  /\ \E d \in NetDelays : now' = now + d
  /\ \E u \in ChartResults :
       IF u = "null"
       THEN /\ report' = [kind |-> "failed", count |-> 0]
            /\ scheduleNext
            /\ UNCHANGED <<ivars, shared, cycle, matches, delivered, completed>>
       ELSE /\ chartUrl' = u
            /\ pc' = "send"
            /\ UNCHANGED <<ivars, shared, sched, loopvars, counters, klines5m, klines15m, analysis,
                           alertType, alertDirection, sendOutcome, sent, obs>>

(* generateChartUrl settles: a URL, or null after any failure it caught *)
GenerateChartUrl ==
  /\ pc \in {"chart", "chartPost"}
  /\ \E d \in NetDelays : now' = now + d
  /\ \E u \in ChartResults : chartUrl' = u
  /\ pc' = "send"
  /\ UNCHANGED <<ivars, shared, sched, loopvars, counters, klines5m, klines15m, analysis, alertType,
                 alertDirection, sendOutcome, sent, obs>>

(* channel.send resolves: the cooldown is recorded, the loop counts and paces *)
ChannelSendOk ==
  /\ pc = "send"
  /\ \E d \in NetDelays : now' = now + d
  /\ alertCooldowns' =
       [s \in DOMAIN alertCooldowns \cup {analysis.symbol} |->
          IF s = analysis.symbol THEN now' ELSE alertCooldowns[s]]
  /\ delivered' = delivered + 1
  /\ alertsSent' = alertsSent + 1
  /\ sendOutcome' = "sent"
  /\ sent' = messagePayload(alertDirection, chartUrl)
  /\ pc' = "pace"
  /\ ResetAlertLocals
  /\ UNCHANGED <<ivars, isWarmedUp, sched, loopvars, skippedDuringWarmup,
                 matches, report, completed>>

(* channel.send throws, with the cooldown recorded before the send *)
ChannelSendFailRecorded ==
  /\ pc = "send"
  /\ \E d \in NetDelays : now' = now + d
  /\ alertCooldowns' =
       [s \in DOMAIN alertCooldowns \cup {analysis.symbol} |->
          IF s = analysis.symbol THEN now ELSE alertCooldowns[s]]
  /\ alertsSent' = alertsSent + 1
  /\ sendOutcome' = "send_failed"
  /\ pc' = "pace"
  /\ ResetAlertLocals
  /\ UNCHANGED <<ivars, isWarmedUp, sched, loopvars, skippedDuringWarmup, sent,
                 matches, delivered, report, completed>>

(* channel.send throws: caught in sendAlert, the loop counts and paces *)
ChannelSendFail ==
  /\ pc = "send"
  /\ \E d \in NetDelays : now' = now + d
  /\ alertsSent' = alertsSent + 1
  /\ sendOutcome' = "send_failed"
  /\ pc' = "pace"
  /\ ResetAlertLocals
  /\ UNCHANGED <<ivars, shared, sched, loopvars, skippedDuringWarmup, sent,
                 matches, delivered, report, completed>>

(* the 2 s pause after sendAlert, then the next ticker *)
AlertPace ==
  /\ pc = "pace"
  /\ now' = now + AlertPaceMs
  /\ k' = k + 1
  /\ pc' = "ticker"
  /\ sendOutcome' = "none"
  /\ sent' = NoMessage
  /\ UNCHANGED <<ivars, shared, sched, marketData, i, batch, counters,
                 klines5m, klines15m, analysis, alertType, chartUrl, alertDirection, obs>>

Next ==
  \/ ClientReadyBullish
  \/ ClientReadyFail
  \/ ClientReadyOk
  \/ TimerFire
  \/ FetchMarketDataOk
  \/ FetchMarketDataFail
  \/ BatchBegin
  \/ ScanComplete
  \/ TickerGated
  \/ TickerAnalyze
  \/ BatchEnd
  \/ BatchPause
  \/ GetKline5m
  \/ SkipAbsent
  \/ SkipNoAlert
  \/ SuppressDuringWarmup
  \/ CallSendAlert
  \/ ChannelFetchOk
  \/ ChannelFetchNull
  \/ ChannelFetchThrow
  \/ ChartKlines
  \/ GenerateChartUrl
  \/ ChannelSendOk
  \/ ChannelSendFail
  \/ AlertPace

Spec == Init /\ [][Next]_vars

(* every await eventually settles and every timer eventually fires *)
FairSpec == Spec /\ WF_vars(Next)

----------------------------------------------------------------------------
(* The opt-in button: the InteractionCreate callback.  It runs on the same *)
(* event loop as the scan, one synchronous segment at a time, whenever the *)
(* scan is suspended.                                                      *)

(* what a guild member can send: any interaction, with any custom id *)
Interactions ==
  [isButton : BOOLEAN,
   customId : {"toggle_role_bullish", "toggle_role_bearish", "toggle_role_",
               "open_chart"}]

(* customId.startsWith('toggle_role_') *)
startsWithToggleRole(id) ==
  id \in {"toggle_role_bullish", "toggle_role_bearish", "toggle_role_"}

(* customId.split('_')[2] *)
roleType(id) ==
  CASE id = "toggle_role_bullish" -> "bullish"
    [] id = "toggle_role_bearish" -> "bearish"
    [] id = "toggle_role_" -> ""
    [] OTHER -> "undefined"

(* the role a button toggles: the bullish one for 'bullish', the bearish  *)
(* one for anything else                                                  *)
toggledRoleId(id) ==
  IF roleType(id) = "bullish" THEN BULLISH_ALERT_ROLE_ID
  ELSE BEARISH_ALERT_ROLE_ID

(* the scan is suspended: at an await, or between two cycles *)
ScanSuspended ==
  pc \in {"boot", "bootBearish", "timer", "fetchMarketData", "kline5m",
          "kline15m", "batchPause", "channelFetch", "chart", "chartPost",
          "send", "pace"}

(* the callbacks in flight with h replaced by g, and with h returned *)
Replace(h, g) == (handlers (-) SetToBag({h})) (+) SetToBag({g})
Return(h) == handlers (-) SetToBag({h})

(* the callbacks in flight that are suspended at position p *)
HandlersAt(p) == {h \in BagToSet(handlers) : h.pc = p}

(* an interaction that is not a toggle button is ignored *)
InteractionIgnored ==
  /\ ScanSuspended
  /\ \E x \in Interactions :
       ~x.isButton \/ ~startsWithToggleRole(x.customId)
  /\ lastReply' = "none"
  /\ UNCHANGED <<now, pc, shared, sched, loopvars, counters, symvars, obs,
                 roleEnv, handlers, memberRoles>>

(* a toggle button is pressed, whether or not earlier presses are still  *)
(* being handled: the listener is entered again for every event.  The    *)
(* role id is looked up and, when it is configured, the role is fetched  *)
(* from the guild                                                        *)
InteractionCreate ==
  /\ ScanSuspended
  /\ BagCardinality(handlers) < MaxHandlers
  /\ \E x \in Interactions :
       /\ x.isButton
       /\ startsWithToggleRole(x.customId)
       /\ handlers' = handlers (+) SetToBag({
            IF toggledRoleId(x.customId) = ""
            THEN [pc |-> "reply", roleId |-> "", reply |-> "not_configured"]
            ELSE [pc |-> "rolesFetch",
                  roleId |-> toggledRoleId(x.customId),
                  reply |-> "none"]})
  /\ lastReply' = "none"
  /\ UNCHANGED <<now, pc, shared, sched, loopvars, counters, symvars, obs,
                 roleEnv, memberRoles>>

(* guild.roles.fetch resolves to the role *)
RolesFetchOk ==
  /\ ScanSuspended
  /\ \E h \in HandlersAt("rolesFetch") :
       handlers' = Replace(h, [h EXCEPT
                     !.pc = IF h.roleId \in memberRoles THEN "remove"
                            ELSE "add"])
  /\ UNCHANGED <<now, pc, shared, sched, loopvars, counters, symvars, obs,
                 roleEnv, memberRoles, lastReply>>

(* guild.roles.fetch resolves to null: the role does not exist *)
RolesFetchNull ==
  /\ ScanSuspended
  /\ \E h \in HandlersAt("rolesFetch") :
       handlers' = Replace(h, [h EXCEPT !.pc = "reply", !.reply = "not_found"])
  /\ UNCHANGED <<now, pc, shared, sched, loopvars, counters, symvars, obs,
                 roleEnv, memberRoles, lastReply>>

(* guild.roles.fetch rejects *)
RolesFetchThrow ==
  /\ ScanSuspended
  /\ \E h \in HandlersAt("rolesFetch") :
       handlers' = Replace(h, [h EXCEPT !.pc = "replyInCatch", !.reply = "error"])
  /\ UNCHANGED <<now, pc, shared, sched, loopvars, counters, symvars, obs,
                 roleEnv, memberRoles, lastReply>>

(* member.roles.add with the alert cooldowns cleared *)
RoleAddOkClearsCooldowns ==
  /\ ScanSuspended
  /\ \E h \in HandlersAt("add") :
       /\ memberRoles' \in {memberRoles, memberRoles \cup {h.roleId}}
       /\ handlers' = Replace(h, [h EXCEPT !.pc = "reply", !.reply = "added"])
  /\ alertCooldowns' = [s \in {} |-> 0]
  /\ UNCHANGED <<now, pc, isWarmedUp, sched, loopvars, counters, symvars, obs,
                 roleEnv, lastReply>>

(* member.roles.add resolves; whether the member's role cache shows the   *)
(* role from then on is up to the client library                         *)
RoleAddOk ==
  /\ ScanSuspended
  /\ \E h \in HandlersAt("add") :
       /\ memberRoles' \in {memberRoles, memberRoles \cup {h.roleId}}
       /\ handlers' = Replace(h, [h EXCEPT !.pc = "reply", !.reply = "added"])
  /\ UNCHANGED <<now, pc, shared, sched, loopvars, counters, symvars, obs,
                 roleEnv, lastReply>>

(* member.roles.remove resolves; the cache as for member.roles.add *)
RoleRemoveOk ==
  /\ ScanSuspended
  /\ \E h \in HandlersAt("remove") :
       /\ memberRoles' \in {memberRoles, memberRoles \ {h.roleId}}
       /\ handlers' = Replace(h, [h EXCEPT !.pc = "reply", !.reply = "removed"])
  /\ UNCHANGED <<now, pc, shared, sched, loopvars, counters, symvars, obs,
                 roleEnv, lastReply>>

(* member.roles.add or member.roles.remove rejects *)
RoleUpdateThrow ==
  /\ ScanSuspended
  /\ \E h \in HandlersAt("add") \cup HandlersAt("remove") :
       handlers' = Replace(h, [h EXCEPT !.pc = "replyInCatch", !.reply = "error"])
  /\ UNCHANGED <<now, pc, shared, sched, loopvars, counters, symvars, obs,
                 roleEnv, memberRoles, lastReply>>

(* interaction.reply in the try block resolves: the callback returns *)
ReplyOk ==
  /\ ScanSuspended
  /\ \E h \in HandlersAt("reply") :
       /\ lastReply' = h.reply
       /\ handlers' = Return(h)
  /\ UNCHANGED <<now, pc, shared, sched, loopvars, counters, symvars, obs,
                 roleEnv, memberRoles>>

(* interaction.reply in the try block rejects: the catch block replies *)
ReplyThrow ==
  /\ ScanSuspended
  /\ \E h \in HandlersAt("reply") :
       handlers' = Replace(h, [h EXCEPT !.pc = "replyInCatch", !.reply = "error"])
  /\ UNCHANGED <<now, pc, shared, sched, loopvars, counters, symvars, obs,
                 roleEnv, memberRoles, lastReply>>

(* interaction.reply in the catch block resolves *)
ReplyInCatchOk ==
  /\ ScanSuspended
  /\ \E h \in HandlersAt("replyInCatch") :
       /\ lastReply' = "error"
       /\ handlers' = Return(h)
  /\ UNCHANGED <<now, pc, shared, sched, loopvars, counters, symvars, obs,
                 roleEnv, memberRoles>>

(* interaction.reply in the catch block rejects, and so does the promise  *)
(* of the listener.  A client that captures the rejections of its         *)
(* listeners emits it as an 'error' event, which the client's error       *)
(* listener logs; nobody is answered                                      *)
ReplyInCatchThrowCaptured ==
  /\ ScanSuspended
  /\ \E h \in HandlersAt("replyInCatch") :
       /\ lastReply' = "client_error"
       /\ handlers' = Return(h)
  /\ UNCHANGED <<now, pc, shared, sched, loopvars, counters, symvars, obs,
                 roleEnv, memberRoles>>

(* the same with a client that does not capture them: the rejection is   *)
(* unhandled, and the process's unhandledRejection listener logs it      *)
ReplyInCatchThrowUnhandled ==
  /\ ScanSuspended
  /\ \E h \in HandlersAt("replyInCatch") :
       /\ lastReply' = "unhandled_rejection"
       /\ handlers' = Return(h)
  /\ UNCHANGED <<now, pc, shared, sched, loopvars, counters, symvars, obs,
                 roleEnv, memberRoles>>

(* a step of the interaction callback *)
HandlerStep ==
  \/ InteractionIgnored
  \/ InteractionCreate
  \/ RolesFetchOk
  \/ RolesFetchNull
  \/ RolesFetchThrow
  \/ RoleAddOk
  \/ RoleRemoveOk
  \/ RoleUpdateThrow
  \/ ReplyOk
  \/ ReplyThrow
  \/ ReplyInCatchOk
  \/ ReplyInCatchThrowCaptured
  \/ ReplyInCatchThrowUnhandled

(* the bot when the timer of its last cycle is pending: the cycles before  *)
(* could not get the ticker list, except the latest, which completed the   *)
(* warmup pass over an empty list.  The bullish role is configured and the *)
(* bearish one is not, so that a press can meet every outcome              *)
InteractInit ==
  /\ now = StartTime + (MaxCycles - 2) * CyclePauseMs
  /\ alertCooldowns = [s \in {} |-> 0]
  /\ isWarmedUp = TRUE
  /\ pc = "timer"
  /\ running = 0
  /\ timers = 1
  /\ cycle = MaxCycles - 1
  /\ marketData = <<>>
  /\ i = 0
  /\ batch = <<>>
  /\ k = 0
  /\ alertsSent = 0
  /\ skippedDuringWarmup = 0
  /\ klines5m = NullKlines
  /\ klines15m = NullKlines
  /\ analysis = NoAnalysis
  /\ alertType = "none"
  /\ chartUrl = "null"
  /\ alertDirection = "none"
  /\ sendOutcome = "none"
  /\ sent = NoMessage
  /\ matches = 0
  /\ delivered = 0
  /\ report = [kind |-> "warmup", count |-> 0]
  /\ completed = TRUE
  /\ roleEnv = [bullish |-> "bullish-role", bearish |-> ""]
  /\ handlers = EmptyBag
  /\ memberRoles = {}
  /\ lastReply = "none"

(* a step of a scan cycle that runs after the warmup, with no cooldown   *)
(* recorded before it                                                    *)
ScanStep ==
  \/ TimerFire
  \/ FetchMarketDataOk
  \/ FetchMarketDataFail
  \/ BatchBegin
  \/ ScanComplete
  \/ TickerAnalyze
  \/ BatchEnd
  \/ BatchPause
  \/ GetKline5m
  \/ SkipAbsent
  \/ SkipNoAlert
  \/ CallSendAlert
  \/ ChannelFetchOk
  \/ ChannelFetchNull
  \/ ChannelFetchThrow
  \/ ChartKlines
  \/ GenerateChartUrl
  \/ ChannelSendOk
  \/ ChannelSendFail
  \/ AlertPace

InteractNext == ScanStep \/ HandlerStep

InteractSpec == InteractInit /\ [][InteractNext]_vars

----------------------------------------------------------------------------
(* The analysis of one symbol on its own: both fetch results are inputs *)

(* a 5-minute series whose candles all close at c, with the opens that    *)
(* the analysis reads (indices 0 and 2) and the one next to them (3)      *)
Series5mOpen(len, c, o0, o2, o3, v) ==
  [n \in 1..len |->
     Candle(IF n = 1 THEN o0 ELSE IF n = 3 THEN o2 ELSE IF n = 4 THEN o3 ELSE c, c, v)]

AnalyzeFeeds5m ==
  { NullKlines,
    Klines(Series5mOpen(9, 100, 100, 100, 100, 20000)),       \* short, flat
    Klines(Series5mOpen(10, 100, 100, 100, 100, 20000)),      \* flat candles
    Klines(Series5mOpen(10, 100, 80, 100, 100, 20000)),       \* latest candle opened lower
    Klines(Series5mOpen(10, 100, 100, 80, 100, 20000)),       \* index 2 opened lower
    Klines(Series5mOpen(10, 100, 100, 100, 80, 20000)),       \* index 3 opened lower
    Klines(Series5mOpen(10, 100, 100, 100, 100, 1000)),       \* flat, illiquid
    Klines(Series5m(10, 100, 106, 100, 20000, 20000, 20000)), \* +6% in 15m
    Klines(Series5m(10, 100, 103, 100, 30000, 20000, 10000)) }  \* +3% in 5m, spike

AnalyzeFeeds15m ==
  { NullKlines,
    Klines(Series15m(<<100>>)),
    Klines(Series15m(<<100, 100, 100, 100, 100>>)),
    Klines(Series15m(<<100, 150, 150, 225, 225>>)) }

AnalyzeInit ==
  /\ now = StartTime + CyclePauseMs
  /\ alertCooldowns = [s \in {} |-> 0]
  /\ isWarmedUp = TRUE
  /\ pc = "analyze"
  /\ running = 1
  /\ timers = 0
  /\ cycle = 2
  /\ \E s \in Symbols : marketData = <<s>> /\ batch = <<s>>
  /\ i = 0
  /\ k = 1
  /\ alertsSent = 0
  /\ skippedDuringWarmup = 0
  /\ klines5m \in AnalyzeFeeds5m
  /\ klines15m \in AnalyzeFeeds15m
  /\ analysis = NoAnalysis
  /\ alertType = "none"
  /\ chartUrl = "null"
  /\ alertDirection = "none"
  /\ sendOutcome = "none"
  /\ sent = NoMessage
  /\ matches = 0
  /\ delivered = 0
  /\ report = [kind |-> "scanning", count |-> 0]
  /\ completed = TRUE
  /\ roleEnv = [bullish |-> "bullish-role", bearish |-> "bearish-role"]
  /\ handlers = EmptyBag
  /\ memberRoles = {}
  /\ lastReply = "none"

(* analyzeSymbol returns to the loop *)
Analyze ==
  /\ pc = "analyze"
  /\ analysis' = analyzeSymbol(batch[k], klines5m, klines15m)
  /\ pc' = "analyzed"
  /\ UNCHANGED <<ivars, now, shared, sched, loopvars, counters, klines5m, klines15m, alertType,
                 chartUrl, alertDirection, sendOutcome, sent, obs>>

(* if (!analysis) continue *)
AnalyzedAbsent ==
  /\ pc = "analyzed"
  /\ analysis.absent
  /\ k' = k + 1
  /\ pc' = "ticker"
  /\ UNCHANGED <<ivars, now, shared, sched, marketData, i, batch, counters, symvars, obs>>

(* shouldAlert(analysis) *)
AnalyzedClassify ==
  /\ pc = "analyzed"
  /\ ~analysis.absent
  /\ alertType' = shouldAlert(analysis)
  /\ pc' = "classified"
  /\ UNCHANGED <<ivars, now, shared, sched, loopvars, counters, klines5m, klines15m, analysis,
                 chartUrl, alertDirection, sendOutcome, sent, obs>>

AnalyzeNext == Analyze \/ AnalyzedAbsent \/ AnalyzedClassify

AnalyzeSpec == AnalyzeInit /\ [][AnalyzeNext]_vars

----------------------------------------------------------------------------
(* The dispatch of one alert on its own: the analysis is the input *)

DispatchInputs ==
  [absent : {FALSE}, symbol : Symbols, price : {100}, ticks5m : {20000},
   volatility15m : {0}, volume5m : {20000}, volume15m : {60000},
   priceChange15m : {-6, -5, -1, 0, 1, 5, 6},
   priceChange5m : {-4, -3, 0, 3, 4},
   volumeSpike : {50, 51}]

DispatchInit ==
  /\ now = StartTime + CyclePauseMs
  /\ alertCooldowns = [s \in {} |-> 0]
  /\ isWarmedUp = TRUE
  /\ pc = "dispatch"
  /\ running = 1
  /\ timers = 0
  /\ cycle = 2
  /\ analysis \in DispatchInputs
  /\ marketData = <<analysis.symbol>>
  /\ batch = <<analysis.symbol>>
  /\ i = 0
  /\ k = 1
  /\ alertsSent = 0
  /\ skippedDuringWarmup = 0
  /\ klines5m = NullKlines
  /\ klines15m = NullKlines
  /\ alertType = "none"
  /\ chartUrl = "null"
  /\ alertDirection = "none"
  /\ sendOutcome = "none"
  /\ sent = NoMessage
  /\ matches = 0
  /\ delivered = 0
  /\ report = [kind |-> "scanning", count |-> 0]
  /\ completed = TRUE
  /\ roleEnv \in RoleEnvs
  /\ handlers = EmptyBag
  /\ memberRoles = {}
  /\ lastReply = "none"

(* shouldAlert returns a category in Live: sendAlert is called and runs   *)
(* up to its first await                                                  *)
DispatchCall ==
  /\ pc = "dispatch"
  /\ shouldAlert(analysis) # "none"
  /\ alertType' = shouldAlert(analysis)
  /\ alertDirection' = direction(analysis, shouldAlert(analysis))
  /\ matches' = matches + 1
  /\ pc' = "channelFetch"
  /\ UNCHANGED <<ivars, now, shared, sched, loopvars, counters, klines5m, klines15m, analysis,
                 chartUrl, sendOutcome, sent, delivered, report, completed>>

(* shouldAlert returns null: the next ticker *)
DispatchNone ==
  /\ pc = "dispatch"
  /\ shouldAlert(analysis) = "none"
  /\ Continue
  /\ UNCHANGED <<ivars, now, shared, sched, marketData, i, batch, counters, obs>>

DispatchNext ==
  \/ DispatchCall
  \/ DispatchNone
  \/ ChannelFetchOk
  \/ ChannelFetchNull
  \/ ChannelFetchThrow
  \/ ChartKlines
  \/ GenerateChartUrl
  \/ ChannelSendOk
  \/ ChannelSendFail
  \/ AlertPace

DispatchSpec == DispatchInit /\ [][DispatchNext]_vars

----------------------------------------------------------------------------
(* The classifier on its own: inputs around every threshold *)

ClassifierInputs ==
  [absent : {FALSE}, symbol : {"BTCUSDT"}, price : {100}, ticks5m : {20000},
   volatility15m : {0}, volume5m : {20000},
   volume15m : {49999, 50000, 50001},
   priceChange15m : {-6, -5, -4, 0, 4, 5, 6},
   priceChange5m : {-4, -3, -2, 0, 2, 3, 4},
   volumeSpike : {-100, 49, 50, 51}]

ClassifyInit ==
  /\ now = StartTime
  /\ alertCooldowns = [s \in {} |-> 0]
  /\ isWarmedUp = FALSE
  /\ pc = "classify"
  /\ running = 0
  /\ timers = 0
  /\ cycle = 0
  /\ marketData = <<>>
  /\ i = 0
  /\ batch = <<>>
  /\ k = 0
  /\ alertsSent = 0
  /\ skippedDuringWarmup = 0
  /\ klines5m = NullKlines
  /\ klines15m = NullKlines
  /\ analysis \in ClassifierInputs
  /\ alertType = "none"
  /\ chartUrl = "null"
  /\ alertDirection = "none"
  /\ sendOutcome = "none"
  /\ sent = NoMessage
  /\ matches = 0
  /\ delivered = 0
  /\ report = NoReport
  /\ completed = FALSE
  /\ roleEnv = [bullish |-> "bullish-role", bearish |-> "bearish-role"]
  /\ handlers = EmptyBag
  /\ memberRoles = {}
  /\ lastReply = "none"

Classify ==
  /\ pc = "classify"
  /\ alertType' = shouldAlert(analysis)
  /\ pc' = "classified"
  /\ UNCHANGED <<ivars, now, shared, sched, loopvars, counters, klines5m, klines15m, analysis, chartUrl,
                 alertDirection, sendOutcome, sent, obs>>

ClassifyAgain ==
  /\ pc = "classified"
  /\ analysis' \in ClassifierInputs
  /\ alertType' = "none"
  /\ pc' = "classify"
  /\ UNCHANGED <<ivars, now, shared, sched, loopvars, counters, klines5m, klines15m, chartUrl,
                 alertDirection, sendOutcome, sent, obs>>

ClassifyNext == Classify \/ ClassifyAgain

ClassifySpec == ClassifyInit /\ [][ClassifyNext]_vars

----------------------------------------------------------------------------
(* Properties *)

SixtyMinutes == 60 * 60 * 1000

InSendAlert == pc \in {"channelFetch", "chart", "chartPost", "send"}

(* C1: no alert is dispatched (sendAlert entered, or a send made to the    *)
(* transport) before a scan pass has run to completion.                    *)
C1_NoDispatchBeforeFirstPass ==
  (InSendAlert \/ pc = "pace" \/ sendOutcome # "none" \/ delivered > 0 \/ alertsSent > 0)
     => completed

(* every symbol of the snapshot matched during warmup, nothing was sent *)
C1_Witness ==
  /\ ~completed
  /\ pc = "batch"
  /\ Len(marketData) >= 2
  /\ skippedDuringWarmup = Len(marketData)
  /\ delivered = 0

(* C2: while an alert for a symbol is being dispatched, any alert recorded *)
(* for that symbol is at least 60 minutes old.                             *)
C2_CooldownSpacing ==
  (InSendAlert /\ analysis.symbol \in DOMAIN alertCooldowns)
     => now - alertCooldowns[analysis.symbol] >= SixtyMinutes

(* a symbol is dispatched again, exactly 60 minutes after its last alert *)
C2_Witness ==
  /\ pc = "send"
  /\ analysis.symbol \in DOMAIN alertCooldowns
  /\ now - alertCooldowns[analysis.symbol] = SixtyMinutes

(* C3: canSendAlert is true for a symbol with no recorded alert, false     *)
(* right after the record, and true again exactly when at least 60 minutes *)
(* have elapsed since the record.                                          *)
C3_CanAlertRule ==
  \A s \in Symbols :
     /\ s \notin DOMAIN alertCooldowns => canSendAlert(s)
     /\ s \in DOMAIN alertCooldowns =>
          /\ alertCooldowns[s] = now => ~canSendAlert(s)
          /\ canSendAlert(s) <=> (now - alertCooldowns[s] >= SixtyMinutes)

(* after a record, one symbol's cooldown has elapsed to the millisecond    *)
(* and another's has not                                                   *)
C3_Witness ==
  /\ \E s \in DOMAIN alertCooldowns :
        now - alertCooldowns[s] = SixtyMinutes /\ canSendAlert(s)
  /\ \E s \in DOMAIN alertCooldowns :
        now - alertCooldowns[s] < SixtyMinutes /\ ~canSendAlert(s)

(* C4: the cooldown map changes only when channel.send succeeds, and then  *)
(* only the entry of the symbol sent; a failed send leaves the map as it   *)
(* was, and the symbol can still be alerted.                               *)
C4_RecordOnlyOnSuccess ==
  [][/\ alertCooldowns' # alertCooldowns =>
          /\ pc = "send"
          /\ delivered' = delivered + 1
          /\ DOMAIN alertCooldowns' = DOMAIN alertCooldowns \cup {analysis.symbol}
          /\ alertCooldowns'[analysis.symbol] = now'
          /\ \A s \in DOMAIN alertCooldowns :
                s # analysis.symbol => alertCooldowns'[s] = alertCooldowns[s]
     /\ (pc = "send" /\ pc' = "pace" /\ delivered' = delivered) =>
          /\ alertCooldowns' = alertCooldowns
          /\ \A s \in {analysis.symbol} : canSendAlert(s)'
    ]_vars

(* a send has failed for a symbol that has no cooldown entry *)
C4_Witness ==
  /\ pc = "pace"
  /\ sendOutcome = "send_failed"
  /\ delivered = 0
  /\ batch[k] \notin DOMAIN alertCooldowns

(* C5: at most one execution of monitorMarket is in progress or scheduled, *)
(* and a cycle begins only at boot or when the previous one has finished   *)
(* and its 60 s timer has fired.                                           *)
C5_NoOverlap ==
  /\ [](running + timers <= 1)
  /\ [][cycle' # cycle =>
          /\ cycle' = cycle + 1
          /\ running = 0
          /\ running' = 1
          /\ \/ pc = "bootBearish"
             \/ pc = "timer" /\ timers = 1 /\ timers' = 0 /\ now' - now >= 60 * 1000
       ]_vars

(* a second cycle is running, none is scheduled *)
C5_Witness == cycle = 2 /\ running = 1 /\ timers = 0 /\ pc = "ticker"

(* C6: once a cycle has begun the scheduler keeps going, whether a cycle   *)
(* completes or is aborted: cycles advance one at a time (C5), so reaching *)
(* the last cycle of the horizon with its timer armed means that every     *)
(* cycle before it was followed by the next one.                           *)
C6_SelfHealing ==
  (cycle >= 1) ~> (cycle = MaxCycles /\ pc = "timer" /\ timers = 1)

(* a cycle has begun although no earlier cycle ran to completion *)
C6_Witness == cycle >= 2 /\ ~completed /\ pc = "fetchMarketData"

(* C7: the warmup flag starts false and never goes back from true to false *)
C7_WarmupMonotonic ==
  /\ isWarmedUp = FALSE
  /\ [][isWarmedUp => isWarmedUp']_vars

(* Live after a cycle that was aborted in sendAlert *)
C7_Witness ==
  /\ isWarmedUp
  /\ pc = "timer"
  /\ report.kind = "failed"
  /\ matches > 0

(* C8: a cycle that starts in warmup and gets its snapshot ends in Live    *)
(* with the warmup summary, whatever it found: while it scans it stays the *)
(* same cycle and can only leave the scan into Live, and it does leave.    *)
C8_FirstPassEndsWarmup ==
  /\ [][(~isWarmedUp /\ pc \in {"batch", "ticker", "kline5m", "kline15m", "batchPause"})
          => /\ cycle' = cycle
             /\ pc' = "timer" => (isWarmedUp' /\ report'.kind = "warmup")]_vars
  /\ (pc = "batch" /\ ~isWarmedUp)
        ~> (pc = "timer" /\ isWarmedUp /\ report.kind = "warmup")

(* the first pass is over with nothing suppressed *)
C8_Witness ==
  /\ isWarmedUp
  /\ pc = "timer"
  /\ report.kind = "warmup"
  /\ report.count = 0
  /\ completed

(* C9: during warmup the counter equals the number of classifications of   *)
(* the pass that produced a category, and that is the count reported at    *)
(* the transition to Live.                                                 *)
C9_SuppressedCount ==
  /\ ~isWarmedUp => skippedDuringWarmup = matches
  /\ report.kind = "warmup" => report.count = matches

(* the transition reports two suppressed alerts *)
C9_Witness ==
  /\ pc = "timer"
  /\ report.kind = "warmup"
  /\ report.count >= 2

Reference(a) ==
  IF a.volume15m < 50000 THEN "none"
  ELSE IF a.priceChange15m >= 5 \/ a.priceChange15m <= -5 THEN "big_move"
  ELSE IF (a.priceChange5m >= 3 \/ a.priceChange5m <= -3) /\ a.volumeSpike > 50
       THEN "fast_move"
  ELSE "none"

(* C10: the category shouldAlert returns is the one of the reference:      *)
(* none below 50,000 of 15-minute volume, else BigMove at 5% or more in    *)
(* 15 minutes, else FastMove at 3% or more in 5 minutes with a volume      *)
(* spike above 50%, else none.                                             *)
C10_ClassifierReference ==
  pc = "classified" => alertType = Reference(analysis)

(* an input that meets both conditions is a BigMove *)
C10_Witness ==
  /\ pc = "classified"
  /\ alertType = "big_move"
  /\ analysis.priceChange15m = -5
  /\ analysis.priceChange5m = 3
  /\ analysis.volumeSpike = 51
  /\ analysis.volume15m = 50000

(* C11: a delivery that fails during a Live cycle does not abort the       *)
(* cycle: whenever sendAlert is left without a successful send, the        *)
(* cooldown map is unchanged and the loop is at its 2 s pause with the     *)
(* same snapshot, the same batch and the same position, ready to go on     *)
(* with the next symbol.                                                   *)
C11_SendFailureContinues ==
  [][(InSendAlert /\ ~InSendAlert' /\ sendOutcome' # "sent")
        => /\ alertCooldowns' = alertCooldowns
           /\ pc' = "pace"
           /\ marketData' = marketData
           /\ batch' = batch
           /\ k' = k]_vars

(* C12: the chart is best-effort.  Whatever generateChartUrl returns, the  *)
(* same alert goes on to channel.send; the message the transport accepts   *)
(* carries an image exactly when there was a chart URL, and an accepted    *)
(* message without an image records the cooldown of its symbol like any    *)
(* other.                                                                  *)
C12_ChartBestEffort ==
  /\ []((pc = "pace" /\ sendOutcome = "sent") =>
          /\ batch[k] \in DOMAIN alertCooldowns
          /\ alertCooldowns[batch[k]] = now)
  /\ [][/\ pc \in {"chart", "chartPost"} =>
             /\ pc' \in {"chartPost", "send"}
             /\ pc' = "send" => chartUrl' \in {"null", "url"}
             /\ analysis' = analysis
             /\ alertType' = alertType
             /\ alertDirection' = alertDirection
        /\ (pc = "send" /\ sendOutcome' = "sent") =>
             sent'.image = (IF chartUrl = "null" THEN "none" ELSE chartUrl)
       ]_vars

(* an alert without an image was accepted and its cooldown recorded *)
C12_Witness ==
  /\ pc = "pace"
  /\ sendOutcome = "sent"
  /\ sent.image = "none"
  /\ sent.channel # "none"
  /\ alertCooldowns[batch[k]] = now

AnalysisFields ==
  {"absent", "symbol", "price", "ticks5m", "volatility15m", "priceChange5m",
   "priceChange15m", "volume5m", "volume15m", "volumeSpike"}

(* C13: the analysis is absent exactly when the 5-minute fetch failed, the *)
(* 15-minute fetch failed or the 5-minute series has fewer than 10         *)
(* candles, and is a complete record otherwise; an absent analysis is      *)
(* never classified: the loop moves to the next symbol with no category,   *)
(* no counter change, no dispatch and no cooldown entry.                   *)
C13_AbsentAnalysisSkipped ==
  pc \in {"analyzed", "ticker", "classified"} =>
     /\ analysis.absent <=>
          (klines5m.isNull \/ klines15m.isNull \/ Len(klines5m.list) < 10)
     /\ ~analysis.absent => DOMAIN analysis = AnalysisFields
     /\ analysis.absent => pc # "classified"
     /\ pc = "ticker" =>
          /\ analysis.absent
          /\ k = 2
          /\ alertType = "none"
          /\ alertsSent = 0 /\ skippedDuringWarmup = 0 /\ matches = 0
          /\ sendOutcome = "none" /\ delivered = 0
          /\ alertCooldowns = [s \in {} |-> 0]

(* a symbol was skipped because only its 15-minute fetch failed *)
C13_Witness ==
  /\ pc = "ticker"
  /\ k = 2
  /\ ~klines5m.isNull
  /\ Len(klines5m.list) >= 10
  /\ klines15m.isNull
  /\ analysis.absent

(* every candle of both fetched series closes at the same price *)
FlatCloses ==
  /\ ~klines5m.isNull
  /\ ~klines15m.isNull
  /\ \A n \in 1..Len(klines5m.list) : klines5m.list[n].close = klines5m.list[1].close
  /\ \A n \in 1..Len(klines15m.list) : klines15m.list[n].close = klines5m.list[1].close

(* C14 as stated: with equal closes the analysis shows no volatility and   *)
(* no price change, and the classifier returns none.                       *)
C14_FlatFeedAsStated ==
  (pc = "classified" /\ FlatCloses) =>
     /\ analysis.volatility15m = 0
     /\ analysis.priceChange5m = 0
     /\ analysis.priceChange15m = 0
     /\ alertType = "none"

(* C14, amended: with equal positive closes, and the two 5-minute candles  *)
(* whose open the analysis reads (the latest and the one at index 2) also  *)
(* opening at that price, the analysis shows no volatility and no price    *)
(* change, and the classifier returns none.                                *)
C14_FlatFeed ==
  (/\ pc = "classified"
   /\ FlatCloses
   /\ klines5m.list[1].close > 0
   /\ klines5m.list[1].open = klines5m.list[1].close
   /\ klines5m.list[3].open = klines5m.list[1].close) =>
     /\ analysis.volatility15m = 0
     /\ analysis.priceChange5m = 0
     /\ analysis.priceChange15m = 0
     /\ alertType = "none"

(* a flat feed whose candle at index 3 opened elsewhere was classified *)
C14_Witness ==
  /\ pc = "classified"
  /\ FlatCloses
  /\ klines5m.list[1].open = klines5m.list[1].close
  /\ klines5m.list[3].open = klines5m.list[1].close
  /\ klines5m.list[4].open # klines5m.list[1].close
  /\ Len(klines15m.list) = 5
  /\ analysis.volume15m >= 50000
  /\ alertType = "none"

(* C15: in Live, a symbol that passes the cooldown gate is analysed, and   *)
(* when its classification produces a category sendAlert is entered for    *)
(* that symbol and category in the same cycle; this includes a symbol      *)
(* whose recorded alert is 60 minutes old or older.                        *)
C15_LiveMatchDispatched ==
  [][/\ (pc = "ticker" /\ k <= Len(batch) /\ canSendAlert(batch[k])) =>
           (pc' = "kline5m" /\ k' = k /\ cycle' = cycle)
     /\ pc = "kline5m" => (pc' = "kline15m" /\ k' = k /\ cycle' = cycle)
     /\ (isWarmedUp /\ matches' = matches + 1) =>
           /\ pc = "kline15m"
           /\ pc' = "channelFetch"
           /\ cycle' = cycle
           /\ k' = k
           /\ analysis'.symbol = batch[k]
           /\ alertType' = shouldAlert(analysis')
           /\ alertType' # "none"
    ]_vars

(* a FastMove is being dispatched for a symbol whose last alert is exactly *)
(* 60 minutes old                                                          *)
C15_Witness ==
  /\ pc = "channelFetch"
  /\ isWarmedUp
  /\ alertType = "fast_move"
  /\ analysis.symbol \in DOMAIN alertCooldowns
  /\ now - alertCooldowns[analysis.symbol] = SixtyMinutes

(* C16: the warmup flag becomes true only in the step that ends a pass     *)
(* over the whole snapshot (every batch taken), with the warmup summary;   *)
(* a cycle that ends in the catch leaves it as it was, so that while it    *)
(* is false no alert is dispatched, in whatever cycle.                     *)
C16_WarmupEndsOnlyOnFullPass ==
  /\ [](~isWarmedUp => (~InSendAlert /\ pc # "pace" /\ alertsSent = 0))
  /\ [][/\ (~isWarmedUp /\ isWarmedUp') =>
              /\ pc = "batch"
              /\ i >= Len(marketData)
              /\ pc' = "timer"
              /\ report' = [kind |-> "warmup", count |-> skippedDuringWarmup]
        /\ report'.kind = "failed" => isWarmedUp' = isWarmedUp
       ]_vars

(* the cycle after an aborted warmup cycle suppresses a match *)
C16_Witness ==
  /\ cycle = 2
  /\ ~isWarmedUp
  /\ ~completed
  /\ skippedDuringWarmup > 0
  /\ pc = "ticker"

(* C17: the cooldown gate precedes the analysis: the visit of a symbol for *)
(* which canSendAlert is false is one step that moves to the next ticker   *)
(* and changes nothing else, and a candle fetch, analysis, classification  *)
(* or dispatch is only ever in progress for a symbol that passed the gate. *)
C17_GateBeforeAnalysis ==
  /\ []((pc \in {"kline5m", "kline15m"} \/ InSendAlert) => canSendAlert(batch[k]))
  /\ [][(pc = "ticker" /\ k <= Len(batch) /\ ~canSendAlert(batch[k])) =>
           /\ k' = k + 1
           /\ pc' = "ticker"
           /\ UNCHANGED <<now, shared, sched, marketData, i, batch, counters, symvars, obs>>
       ]_vars

(* the first symbol of the batch was skipped at the gate: it carries a     *)
(* cooldown of an earlier cycle and nothing was fetched or counted         *)
C17_Witness ==
  /\ pc = "ticker"
  /\ k = 2
  /\ batch[1] \in DOMAIN alertCooldowns
  /\ ~canSendAlert(batch[1])
  /\ alertsSent = 0
  /\ matches = 0

(* C18: the count of the summary that ends a completed Live cycle is the   *)
(* number of alerts the transport accepted in that cycle, which is the     *)
(* number of cooldown entries the cycle recorded.                          *)
C18_SentCountIsDelivered ==
  report.kind = "done" => report.count = delivered

(* the price-change field of the triggered category *)
TriggerField == IF alertType = "big_move" THEN analysis.priceChange15m
                ELSE analysis.priceChange5m

(* the mention of a message: the role id of direction d when one is       *)
(* configured, none otherwise                                             *)
Mention(d) == IF roleEnv[d] # "" THEN roleEnv[d] ELSE "none"

(* C20 as stated: the message of an alert whose trigger field is positive  *)
(* always carries the mention of the bullish role, and the message of one  *)
(* whose trigger field is negative the mention of the bearish role.        *)
C20_MentionAlways ==
  [][sendOutcome' = "sent" =>
       /\ TriggerField > 0 => sent'.content = "bullish-role"
       /\ TriggerField < 0 => sent'.content = "bearish-role"]_vars

(* C20: an alert being dispatched has a non-zero trigger field (the        *)
(* 15-minute change for a BigMove, the 5-minute change for a FastMove);    *)
(* its direction is bullish when the field is positive and bearish when    *)
(* it is negative, and the message the transport accepts goes to that      *)
(* direction's channel and to no other, with that direction's opt-in       *)
(* button, and with the mention of that direction's role when a role id    *)
(* is configured for it and no mention when none is.                       *)
C20_DirectionRouting ==
  /\ [](InSendAlert =>
          /\ alertType \in {"big_move", "fast_move"}
          /\ TriggerField # 0
          /\ TriggerField > 0 => alertDirection = "bullish"
          /\ TriggerField < 0 => alertDirection = "bearish")
  /\ [][sendOutcome' = "sent" =>
          /\ pc = "send"
          /\ delivered' = delivered + 1
          /\ TriggerField > 0 =>
               /\ sent'.channel = BULLISH_ALERT_CHANNEL_ID
               /\ sent'.content = Mention("bullish")
               /\ sent'.customId = "toggle_role_bullish"
          /\ TriggerField < 0 =>
               /\ sent'.channel = BEARISH_ALERT_CHANNEL_ID
               /\ sent'.content = Mention("bearish")
               /\ sent'.customId = "toggle_role_bearish"
       ]_vars

(* a FastMove down is about to be sent to the bearish channel although the *)
(* 15-minute change is up; only the bullish role is configured             *)
C20_Witness ==
  /\ pc = "send"
  /\ alertType = "fast_move"
  /\ analysis.priceChange5m < 0
  /\ analysis.priceChange15m > 0
  /\ alertDirection = "bearish"
  /\ roleEnv.bearish = ""
  /\ roleEnv.bullish # ""

(* C19: a step of the opt-in interaction callback, whatever the input and  *)
(* whatever the outcome, leaves the cooldown map and the warmup flag       *)
(* unchanged, and with them the position, the locals, the counters and     *)
(* the output of a scan cycle that is suspended; only the scan's control   *)
(* flow changes the cooldown map or the warmup flag.                       *)
C19_InteractionFrame ==
  /\ [][handlers' # handlers \/ lastReply' # lastReply \/ memberRoles' # memberRoles
          => /\ alertCooldowns' = alertCooldowns
             /\ isWarmedUp' = isWarmedUp
             /\ <<now, pc, sched, loopvars, counters, symvars, obs>>'
                  = <<now, pc, sched, loopvars, counters, symvars, obs>>]_vars
  /\ [][alertCooldowns' # alertCooldowns \/ isWarmedUp' # isWarmedUp
          => /\ ivars' = ivars
             /\ pc \in {"send", "batch"}]_vars

(* two presses of the bullish button are handled at the same time: both   *)
(* callbacks saw the member without the role and are about to add it,     *)
(* while the scan, which has sent an alert and recorded its cooldown,     *)
(* pauses before the next symbol                                          *)
C19_Witness ==
  /\ pc = "pace"
  /\ sendOutcome = "sent"
  /\ isWarmedUp
  /\ \E h \in BagToSet(handlers) : h.pc = "add" /\ CopiesIn(h, handlers) = 2
  /\ memberRoles = {}
  /\ \E s \in DOMAIN alertCooldowns : alertCooldowns[s] > 0

====
